---- MODULE Spec2Model ----
(***************************************************************************)
(* usb2sock: the USB bulk stream to TCP fan-out bridge of                  *)
(* src/usb2sock/usb2sock.c, as a state machine.                            *)
(*                                                                         *)
(* The program is single threaded.  pc is the position of that thread;     *)
(* every action is one system/library call of the program together with    *)
(* the straight-line code that follows it.  The TCP peers and the USB      *)
(* device are the environment: their answers are drawn with \E.            *)
(***************************************************************************)
EXTENDS Integers, Sequences, FiniteSets, TLC

(***************************************************************************)
(* Bounds of the model.                                                    *)
(***************************************************************************)
MaxClients == 3     \* slots of clientlist[] (1024 in the program)
MaxPending == 2     \* connections waiting in the listen queue
MaxLen     == 2     \* longest bulk read, in bytes
MaxDevs    == 2     \* longest enumerated device list

(***************************************************************************)
(* Program constants.                                                      *)
(***************************************************************************)
WAIT_FOR_HOTPLUG == 3232            \* 0xca0
VENDOR_ID_DJI == 11427              \* 0x2ca3
MAGIC_LEN == 4                      \* sizeof("RMVT") - 1
SizeofInt == 4                      \* bytes of one clientlist[] entry
LIBUSB_ERROR_IO == -1
LIBUSB_ERROR_NO_DEVICE == -4
LIBUSB_ERROR_NOT_FOUND == -5
LIBUSB_ERROR_TIMEOUT == -7
LIBUSB_ERROR_OTHER == -99

LibusbErrors ==
    { LIBUSB_ERROR_IO, LIBUSB_ERROR_NO_DEVICE, LIBUSB_ERROR_NOT_FOUND,
      LIBUSB_ERROR_TIMEOUT, LIBUSB_ERROR_OTHER }

\* The descriptors a client socket can get, numbered from 1: one more than
\* clientlist[] holds.  accept fails (EMFILE) when all of them are open.
MaxFd == MaxClients + 1
Fds == 1..MaxFd
Slots == 0..(MaxClients - 1)
Identities == {"goggles", "other"}

VARIABLES
    pc,             \* position of the program
    caller,         \* "sup": the fan-out calls of start_usb2sock, "stream": of start_stream
    clientlist,     \* int clientlist[]
    clientlist_use, \* unsigned clientlist_use
    i,              \* loop index of recv_and_discard / send_to_socket
    ofs,            \* int ofs of send_to_socket
    success,        \* bytes transferred by the last bulk transfer
    r,              \* int r of start_usb2sock / start_with_a_device (the value returned up)
    r_stream,       \* int r of start_stream: the result of its last bulk transfer
    clientfd,       \* int clientfd of accept_any_connection
    saddrlen_ok,    \* saddrlen == sizeof(saddr) after accept
    open,           \* kernel: the client descriptors that are open
    eof,            \* kernel: open descriptors whose peer has closed
    pending,        \* kernel: connections in the listen queue
    devs,           \* libusb: the device list of the current discovery pass, as far
                    \* as the scan loop has read it (devs[0] .. devs[i])
    di,             \* index i of the scan loop of start_usb2sock
    usbdev,         \* "none", "open", "closed": the handle of this pass
    nclose,         \* libusb_close calls on the handle of this pass
    handles,        \* libusb: device handles that are open
    ret_from,       \* the return statement of start_with_a_device last taken
    rcvd,           \* kernel: per descriptor, the offsets of the bytes of buf that
                    \* the running send_to_socket call has written to its socket
    unread,         \* kernel: bytes of the peer wait in the socket clientlist[i]
                    \* that recv_and_discard is reading
    close_r,        \* what close() returned in the last step of the program:
                    \* 0, or -1 (EBADF); 0 when the step did not call close()
    eofAtCall,      \* history: registered descriptors at EOF when recv_and_discard began
    gone,           \* history: sockets that were at EOF when a recv_and_discard call
                    \* began and that the program still holds open after it returned
    unexamined,     \* history: the descriptors registered when recv_and_discard
                    \* began that the call has neither removed nor seen report
                    \* "would block" so far
    blocked         \* history: per descriptor, the offset M at which the running
                    \* send_to_socket call got "would block" from it, or NoBlock

vars ==
    << pc, caller, clientlist, clientlist_use, i, ofs, success, r, r_stream, clientfd,
       saddrlen_ok, open, eof, pending, devs, di, usbdev, nclose, handles,
       ret_from, rcvd, unread, close_r, eofAtCall, gone, unexamined,
       blocked >>

fanout == << clientlist, clientlist_use, i, ofs, clientfd, saddrlen_ok >>
kernel == << open, eof, rcvd, unread >>
history == << eofAtCall, gone, unexamined, blocked >>
usb == << devs, di, usbdev, nclose, handles, ret_from >>

(***************************************************************************)
(* memmove over the bytes of clientlist[] (little endian, 4-byte int).     *)
(***************************************************************************)
Pow256(k) == 256 ^ k

ByteOf(v, k) == (v \div Pow256(k)) % 256

ArrayBytes(arr) ==
    [p \in 0..(SizeofInt * MaxClients - 1) |->
        ByteOf(arr[p \div SizeofInt], p % SizeofInt)]

IntAt(b, j) ==
    b[SizeofInt * j] + b[SizeofInt * j + 1] * Pow256(1)
        + b[SizeofInt * j + 2] * Pow256(2) + b[SizeofInt * j + 3] * Pow256(3)

\* memmove(&arr[dst], &arr[src], n): n is a number of BYTES
memmove(arr, dst, src, n) ==
    LET b == ArrayBytes(arr)
        nb == [p \in DOMAIN b |->
                 IF p >= SizeofInt * dst /\ p < SizeofInt * dst + n
                 THEN b[SizeofInt * src + (p - SizeofInt * dst)]
                 ELSE b[p]]
    IN  [j \in Slots |-> IntAt(nb, j)]

\* the byte count close_client passes to memmove
ShiftBytes(use, idx) == use - idx

Registry == [j \in 1..clientlist_use |-> clientlist[j - 1]]
RegisteredFds == { clientlist[j] : j \in 0..(clientlist_use - 1) }

RemoveAt(s, k) == SubSeq(s, 1, k - 1) \o SubSeq(s, k + 1, Len(s))

(***************************************************************************)
(* close(fd): the descriptor is released; closing a descriptor that is     *)
(* not open fails with EBADF.                                              *)
(***************************************************************************)
Close(fd) ==
    /\ open' = open \ {fd}
    /\ eof' = eof \ {fd}
    /\ close_r' = IF fd \in open THEN 0 ELSE -1

\* The slots at clientlist_use and above are dead storage: every read of
\* clientlist[] is guarded by i < clientlist_use, and the memmove of close_client
\* reads only below the clientlist_use it was called with.  The model keeps
\* the dead slots at 0, the value they start with.
Live(arr, use) == [j \in Slots |-> IF j < use THEN arr[j] ELSE 0]

\* close_client(idx)
close_client(idx) ==
    /\ Close(clientlist[idx])
    /\ clientlist_use' = clientlist_use - 1
    /\ clientlist' = Live(memmove(clientlist, idx, idx + 1,
                                  ShiftBytes(clientlist_use - 1, idx)),
                          clientlist_use - 1)

NoFd == -1
NoBlock == -1

Init ==
    /\ pc = "accept"
    /\ caller = "sup"
    /\ clientlist = [j \in Slots |-> 0]
    /\ clientlist_use = 0
    /\ i = 0
    /\ ofs = 0
    /\ success = 0
    /\ r = 0
    /\ r_stream = 0
    /\ clientfd = NoFd
    /\ saddrlen_ok = TRUE
    /\ open = {}
    /\ eof = {}
    /\ pending = 0
    /\ devs = << >>
    /\ di = 0
    /\ usbdev = "none"
    /\ nclose = 0
    /\ handles = 0
    /\ ret_from = "none"
    /\ rcvd = [fd \in Fds |-> << >>]
    /\ unread = FALSE
    /\ close_r = 0
    /\ eofAtCall = {}
    /\ unexamined = {}
    /\ gone = {}
    /\ blocked = [fd \in Fds |-> NoBlock]

\* a step of the program that does not call close()
NoClose == close_r' = 0

(***************************************************************************)
(* The environment: TCP peers.                                             *)
(***************************************************************************)
Running == pc # "exit"

\* a client connects: one more connection in the listen queue
PeerConnect ==
    /\ Running
    /\ pending < MaxPending
    /\ pending' = pending + 1
    /\ UNCHANGED << pc, caller, fanout, success, r, r_stream, kernel, close_r,
                    usb, history >>

\* A connected client closes its socket: reads on fd now return 0.  The
\* program reads only the sockets of its registry, so the close of any other
\* peer is not observable and is left out.
PeerClose(fd) ==
    /\ Running
    /\ fd \in (RegisteredFds \cap open) \ eof
    /\ eof' = eof \cup {fd}
    /\ UNCHANGED << pc, caller, fanout, success, r, r_stream, open, rcvd,
                    unread, close_r, pending, usb, history >>

\* The peer of the socket recv_and_discard is reading sends bytes.  The
\* program sees the bytes of a peer only when it reads that peer's socket, so
\* bytes sent at any earlier time are bytes that arrive when the loop is there.
PeerSend ==
    /\ Running
    /\ pc = "recv"
    /\ i < clientlist_use
    /\ clientlist[i] \in open \ eof
    /\ ~unread
    /\ unread' = TRUE
    /\ UNCHANGED << pc, caller, fanout, success, r, r_stream, open, eof, rcvd,
                    close_r, pending, usb, history >>

(***************************************************************************)
(* accept_any_connection                                                   *)
(***************************************************************************)
\* the return of accept_any_connection: both callers go on to recv_and_discard,
\* whose loop starts at i = 0
AcceptReturn ==
    /\ pc' = "recv"
    /\ i' = 0
    /\ clientfd' = NoFd
    /\ saddrlen_ok' = TRUE
    /\ eofAtCall' = { clientlist'[j] : j \in 0..(clientlist_use' - 1) } \cap eof'
    /\ unexamined' = { clientlist'[j] : j \in 0..(clientlist_use' - 1) }

FreeFds == Fds \ open
LowestFree == CHOOSE fd \in FreeFds : \A g \in FreeFds : fd <= g

\* a plausible slip: accept is called until the listen queue is empty, and the
\* last connection taken is the one that is handled
AcceptCallDrains ==
    /\ pc = "accept"
    /\ \/ \* nothing pending (EWOULDBLOCK), or no descriptor left (EMFILE)
          /\ pending = 0 \/ FreeFds = {}
          /\ UNCHANGED << clientlist, clientlist_use, open, eof, pending, gone >>
          /\ AcceptReturn
       \/ \* a connection is taken from the queue on the lowest free descriptor
          /\ pending > 0 /\ FreeFds # {}
          /\ pending' = 0
          /\ clientfd' = LowestFree
          /\ open' = open \cup {LowestFree}
          /\ gone' = gone \ {LowestFree}
          /\ \E ok \in BOOLEAN : saddrlen_ok' = ok
          /\ pc' = "accept_check"
          /\ UNCHANGED << clientlist, clientlist_use, i, eof, eofAtCall,
                          unexamined >>
    /\ NoClose
    /\ UNCHANGED << caller, ofs, success, r, r_stream, rcvd, unread, usb,
                    blocked >>

\* accept(): lines 100-107
accept_call ==
    /\ pc = "accept"
    /\ \/ \* nothing pending (EWOULDBLOCK), or no descriptor left (EMFILE)
          /\ pending = 0 \/ FreeFds = {}
          /\ UNCHANGED << clientlist, clientlist_use, open, eof, pending, gone >>
          /\ AcceptReturn
       \/ \* a connection is taken from the queue on the lowest free descriptor
          /\ pending > 0 /\ FreeFds # {}
          /\ pending' = pending - 1
          /\ clientfd' = LowestFree
          /\ open' = open \cup {LowestFree}
          /\ gone' = gone \ {LowestFree}
          /\ \E ok \in BOOLEAN : saddrlen_ok' = ok
          /\ pc' = "accept_check"
          /\ UNCHANGED << clientlist, clientlist_use, i, eof, eofAtCall,
                          unexamined >>
    /\ NoClose
    /\ UNCHANGED << caller, ofs, success, r, r_stream, rcvd, unread, usb,
                    blocked >>

\* a plausible slip: a full clientlist[] takes the connection into its last slot
TooManyClientsOverwrites ==
    /\ clientlist' = [clientlist EXCEPT ![MaxClients - 1] = clientfd]
    /\ UNCHANGED << clientlist_use, open, eof >>
    /\ NoClose
    /\ AcceptReturn

\* lines 120-124: "too many clients"
TooManyClients ==
    /\ Close(clientfd)
    /\ UNCHANGED << clientlist, clientlist_use >>
    /\ AcceptReturn

\* lines 116-124: the address length and the capacity of clientlist[]
accept_check ==
    /\ pc = "accept_check"
    /\ IF ~saddrlen_ok
       THEN /\ UNCHANGED << clientlist, clientlist_use, open, eof >>
            /\ NoClose
            /\ AcceptReturn
       ELSE IF clientlist_use >= MaxClients
       THEN TooManyClients
       ELSE /\ pc' = "accept_fcntl"
            /\ NoClose
            /\ UNCHANGED << clientlist, clientlist_use, i, clientfd, saddrlen_ok,
                            open, eof, eofAtCall, unexamined >>
    /\ UNCHANGED << caller, ofs, success, r, r_stream, rcvd, unread, pending,
                    usb, gone, blocked >>

\* lines 126-133: fcntl(O_NONBLOCK), then the registration
accept_register ==
    /\ pc = "accept_fcntl"
    /\ \E fcntl_ok \in BOOLEAN :
          IF fcntl_ok
          THEN UNCHANGED << open, eof >> /\ NoClose
          ELSE Close(clientfd)
    /\ clientlist' = [clientlist EXCEPT ![clientlist_use] = clientfd]
    /\ clientlist_use' = clientlist_use + 1
    /\ AcceptReturn
    /\ UNCHANGED << caller, ofs, success, r, r_stream, rcvd, unread, pending,
                    usb, gone, blocked >>

(***************************************************************************)
(* recv_and_discard: one read() of the loop of lines 139-157               *)
(***************************************************************************)
\* a plausible slip: the loop index moves on after a removal
RecvRemoveThenNext ==
    /\ close_client(i)
    /\ i' = i + 1
    /\ unread' = FALSE
    /\ unexamined' = unexamined \ {clientlist[i]}

\* lines 148-155: close_client(i); continue
RecvRemove ==
    /\ close_client(i)
    /\ i' = i
    /\ unread' = FALSE
    /\ unexamined' = unexamined \ {clientlist[i]}

recv_and_discard ==
    /\ pc = "recv"
    /\ IF i >= clientlist_use
       THEN \* the loop ends, the function returns to its caller
            /\ pc' = IF caller = "sup" THEN "get_device_list" ELSE "bulk_read"
            /\ i' = 0
            /\ gone' = gone \cup (eofAtCall \cap open)
            /\ eofAtCall' = {}
            /\ unexamined' = {}
            /\ NoClose
            /\ UNCHANGED << clientlist, clientlist_use, open, eof, unread >>
       ELSE /\ \/ \* n < 0, EBADF: the descriptor is not open
                  /\ clientlist[i] \notin open
                  /\ RecvRemove
               \/ \* n == 0: the peer has closed and all its bytes are read
                  /\ clientlist[i] \in eof
                  /\ ~unread
                  /\ RecvRemove
               \/ \* n < 0, another errno: the read failed
                  /\ clientlist[i] \in open \ eof
                  /\ RecvRemove
               \/ \* n > 0: the bytes that wait are discarded, the same peer
                  \* is read again
                  /\ clientlist[i] \in open
                  /\ unread
                  /\ unread' = FALSE
                  /\ NoClose
                  /\ UNCHANGED << clientlist, clientlist_use, open, eof, i,
                                  unexamined >>
            /\ UNCHANGED << pc, eofAtCall, gone >>
    /\ UNCHANGED << caller, ofs, success, r, r_stream, clientfd, saddrlen_ok,
                    rcvd, pending, usb, blocked >>

\* n < 0 with EWOULDBLOCK / EAGAIN: lines 143-147
recv_would_block ==
    /\ pc = "recv"
    /\ i < clientlist_use
    /\ clientlist[i] \in open \ eof
    /\ ~unread
    /\ i' = i + 1
    /\ unexamined' = unexamined \ {clientlist[i]}
    /\ NoClose
    /\ UNCHANGED << pc, caller, clientlist, clientlist_use, ofs, success, r,
                    r_stream, clientfd, saddrlen_ok, kernel, pending, usb,
                    eofAtCall, gone, blocked >>

(***************************************************************************)
(* send_to_socket: one write() of the loop of lines 167-186                *)
(***************************************************************************)
\* the offsets of the bytes buf[from .. from+n-1], in the order the socket gets them
BufBytes(from, n) == [k \in 1..n |-> from + k - 1]

\* what the loop does after a write that returned n > 0: lines 180-185
AfterWrite(n) ==
    IF ofs + n < success
    THEN /\ ofs' = ofs + n
         /\ i' = i
    ELSE /\ ofs' = 0
         /\ i' = i + 1

\* a plausible slip: the offset is not reset when a peer is removed
AfterWriteErrorKeepsOfs ==
    /\ close_client(i)
    /\ ofs' = ofs
    /\ i' = i

\* what the loop does after a write that failed, other than "would block":
\* lines 172-175
AfterWriteError ==
    /\ close_client(i)
    /\ ofs' = 0
    /\ i' = i

\* The top of the loop of start_stream (line 231).  success = 0 of line 234 is
\* taken here: accept_any_connection and recv_and_discard, which run before
\* it, use neither success nor r.
LoopHead ==
    /\ pc' = "accept"
    /\ caller' = "stream"
    /\ success' = 0
    /\ r_stream' = 0

send_to_socket ==
    /\ pc = "send"
    /\ IF i >= clientlist_use
       THEN \* the loop ends; start_stream goes to its next iteration
            /\ LoopHead
            /\ i' = 0
            /\ ofs' = 0
            /\ rcvd' = [fd \in Fds |-> << >>]
            /\ blocked' = [fd \in Fds |-> NoBlock]
            /\ NoClose
            /\ UNCHANGED << clientlist, clientlist_use, open, eof >>
       ELSE /\ UNCHANGED << pc, caller, success, r_stream >>
            /\ \/ \* n < 0, EBADF: the descriptor is not open
                  /\ clientlist[i] \notin open
                  /\ AfterWriteError
                  /\ UNCHANGED << rcvd, blocked >>
               \/ \* n < 0, another errno but EWOULDBLOCK: the write failed
                  /\ clientlist[i] \in open
                  /\ AfterWriteError
                  /\ UNCHANGED << rcvd, blocked >>
               \/ \* n < 0, EWOULDBLOCK: the socket buffer is full
                  /\ clientlist[i] \in open
                  /\ success - ofs > 0
                  /\ blocked' = [blocked EXCEPT ![clientlist[i]] = ofs]
                  /\ ofs' = 0
                  /\ i' = i + 1
                  /\ NoClose
                  /\ UNCHANGED << clientlist, clientlist_use, open, eof, rcvd >>
               \/ \* n == 0: a write of no bytes
                  /\ clientlist[i] \in open
                  /\ success - ofs = 0
                  /\ ofs' = 0
                  /\ i' = i + 1
                  /\ NoClose
                  /\ UNCHANGED << clientlist, clientlist_use, open, eof, rcvd,
                                  blocked >>
               \/ \* n > 0: the socket takes n bytes from buf + ofs
                  /\ clientlist[i] \in open
                  /\ \E n \in 1..(success - ofs) :
                        /\ rcvd' = [rcvd EXCEPT ![clientlist[i]] =
                                        @ \o BufBytes(ofs, n)]
                        /\ AfterWrite(n)
                  /\ NoClose
                  /\ UNCHANGED << clientlist, clientlist_use, open, eof, blocked >>
    /\ UNCHANGED << r, clientfd, saddrlen_ok, unread, pending, usb, eofAtCall, unexamined,
                    gone >>

(***************************************************************************)
(* start_stream                                                            *)
(***************************************************************************)
\* return X of start_stream: start_with_a_device gets it in r (line 374)
StreamReturn(x) ==
    /\ r' = x
    /\ pc' = "libusb_close"
    /\ ret_from' = "stream"
    /\ UNCHANGED << caller, success, r_stream >>

\* libusb_bulk_transfer(out, MAGIC_PACKET): line 207
handshake ==
    /\ pc = "handshake"
    /\ \E res \in {0} \cup LibusbErrors, n \in {0, MAGIC_LEN \div 2, MAGIC_LEN} :
          \* only a transfer that worked or timed out moves bytes
          /\ res \notin {0, LIBUSB_ERROR_TIMEOUT} => n = 0
          /\ r_stream' = res
          /\ success' = n
    /\ pc' = "handshake_check"
    /\ NoClose
    /\ UNCHANGED << caller, fanout, r, kernel, pending, usb, history >>

\* a plausible slip: a handshake that timed out is reported like a short send
AlreadyConnectedReturns == StreamReturn(LIBUSB_ERROR_TIMEOUT)

\* lines 210-212: "goggles already connected", on to the loop of line 231
AlreadyConnected == LoopHead /\ UNCHANGED << r, ret_from >>

\* lines 210-222
handshake_check ==
    /\ pc = "handshake_check"
    /\ IF r_stream = LIBUSB_ERROR_TIMEOUT /\ success = 0
       THEN AlreadyConnected
       ELSE IF r_stream = LIBUSB_ERROR_IO
       THEN StreamReturn(WAIT_FOR_HOTPLUG)
       ELSE IF r_stream # 0
       THEN StreamReturn(r_stream)
       ELSE IF success # MAGIC_LEN
       THEN StreamReturn(LIBUSB_ERROR_TIMEOUT)
       ELSE LoopHead /\ UNCHANGED << r, ret_from >>
    /\ NoClose
    /\ UNCHANGED << fanout, kernel, pending, devs, di, usbdev, nclose, handles,
                    history >>

\* libusb_bulk_transfer(in, buf): lines 235-236
bulk_read ==
    /\ pc = "bulk_read"
    /\ \E res \in {0} \cup LibusbErrors, n \in 0..MaxLen :
          \* only a transfer that worked or timed out moves bytes
          /\ res \notin {0, LIBUSB_ERROR_TIMEOUT} => n = 0
          /\ r_stream' = res
          /\ success' = n
    /\ pc' = "classify"
    /\ NoClose
    /\ UNCHANGED << caller, fanout, r, kernel, pending, usb, history >>

\* a plausible slip: a timeout without data handled like a lost device
NoSignalRestarts ==
    /\ StreamReturn(WAIT_FOR_HOTPLUG)
    /\ UNCHANGED << i, ofs >>

\* lines 237-241: "video signal: OFF", usleep, count = 0, next iteration
NoSignal ==
    /\ LoopHead
    /\ UNCHANGED << r, ret_from, i, ofs >>

\* lines 237-260
classify ==
    /\ pc = "classify"
    /\ IF r_stream = LIBUSB_ERROR_TIMEOUT /\ success = 0
       THEN NoSignal
       ELSE IF r_stream \in { LIBUSB_ERROR_IO, LIBUSB_ERROR_NO_DEVICE,
                              LIBUSB_ERROR_NOT_FOUND }
       THEN StreamReturn(WAIT_FOR_HOTPLUG) /\ UNCHANGED << i, ofs >>
       ELSE IF r_stream # 0
       THEN StreamReturn(r_stream) /\ UNCHANGED << i, ofs >>
       ELSE \* send_to_socket(success) begins: ofs = 0, i = 0
            /\ pc' = "send"
            /\ i' = 0
            /\ ofs' = 0
            /\ UNCHANGED << caller, success, r_stream, r, ret_from >>
    /\ NoClose
    /\ UNCHANGED << clientlist, clientlist_use, clientfd, saddrlen_ok, kernel,
                    pending, devs, di, usbdev, nclose, handles, history >>

(***************************************************************************)
(* start_with_a_device                                                     *)
(***************************************************************************)
\* a plausible slip: the scan loop goes on to the next device after any return
DeviceReturnContinues(x, from) ==
    /\ r' = x
    /\ ret_from' = from
    /\ di' = di + 1
    /\ pc' = "scan"

\* return X of start_with_a_device from the statement named `from`; the scan
\* loop of start_usb2sock (lines 451-455) goes on after VENDOR_ID_DJI and
\* breaks after anything else
DeviceReturn(x, from) ==
    /\ r' = x
    /\ ret_from' = from
    /\ IF x = VENDOR_ID_DJI
       THEN /\ di' = di + 1
            /\ pc' = "scan"
       ELSE /\ di' = di
            /\ pc' = "sup_check"

\* libusb_get_device_list: lines 448-450 (r is already 0, see LoopTop)
get_device_list ==
    /\ pc = "get_device_list"
    /\ \/ \* cnt < 0: the loop of start_usb2sock starts over
          pc' = "accept"
       \/ \* cnt >= 0: the scan loop starts at i = 0
          pc' = "scan"
    /\ UNCHANGED << devs, di >>
    /\ NoClose
    /\ UNCHANGED << caller, fanout, success, r, r_stream, kernel, pending,
                    usbdev, nclose, handles, ret_from, history >>

\* The loop condition of line 451, then lines 271-280 of start_with_a_device.
\* The list libusb returned is read one entry at a time: the entry the loop
\* reaches is drawn when the loop reads it, and the list ends at any length
\* up to MaxDevs.
scan ==
    /\ pc = "scan"
    /\ \/ \* devs[i] is NULL or i == cnt: the list has di entries
          /\ di = Len(devs)
          /\ pc' = "sup_check"
          /\ UNCHANGED << r, di, ret_from, devs >>
       \/ \* devs[i] is a device
          /\ di = Len(devs)
          /\ di < MaxDevs
          /\ \E d \in Identities :
                /\ devs' = Append(devs, d)
                /\ \/ \* libusb_get_device_descriptor failed
                      \E e \in LibusbErrors : DeviceReturn(e, "descriptor")
                   \/ \* the identity of the device decides
                      IF d # "goggles"
                      THEN DeviceReturn(VENDOR_ID_DJI, "wrong_device")
                      ELSE /\ pc' = "libusb_open"
                           /\ UNCHANGED << r, di, ret_from >>
    /\ NoClose
    /\ UNCHANGED << caller, fanout, success, r_stream, kernel, pending,
                    usbdev, nclose, handles, history >>

\* lines 283-288
libusb_open ==
    /\ pc = "libusb_open"
    /\ \/ /\ DeviceReturn(WAIT_FOR_HOTPLUG, "open")
          /\ UNCHANGED << usbdev, nclose, handles >>
       \/ /\ usbdev' = "open"
          /\ nclose' = 0
          /\ handles' = handles + 1
          /\ pc' = "get_configuration"
          /\ UNCHANGED << r, di, ret_from >>
    /\ NoClose
    /\ UNCHANGED << caller, fanout, success, r_stream, kernel, pending, devs,
                    history >>

\* libusb_close(usbdev)
LibusbClose ==
    /\ usbdev' = "closed"
    /\ nclose' = nclose + 1
    /\ handles' = IF usbdev = "open" THEN handles - 1 ELSE handles

\* lines 289-306: get_configuration, set_configuration when cfg == 0
get_configuration ==
    /\ pc = "get_configuration"
    /\ \/ \* get_configuration failed (logged), cfg # 0, or set_configuration worked
          /\ pc' = "get_config_descriptor"
          /\ UNCHANGED << r, di, ret_from >>
       \/ \* cfg == 0 and set_configuration failed: return r
          \E e \in LibusbErrors : DeviceReturn(e, "set_configuration")
    /\ NoClose
    /\ UNCHANGED << caller, fanout, success, r_stream, kernel, pending, devs,
                    usbdev, nclose, handles, history >>

\* lines 307-351: the config descriptor and the search of the FF/43 interface
get_config_descriptor ==
    /\ pc = "get_config_descriptor"
    /\ \/ /\ pc' = "claim"
          /\ UNCHANGED << r, di, ret_from >>
       \/ \E e \in LibusbErrors : DeviceReturn(e, "config_descriptor")
    /\ NoClose
    /\ UNCHANGED << caller, fanout, success, r_stream, kernel, pending, devs,
                    usbdev, nclose, handles, history >>

\* lines 353-358
claim_interface ==
    /\ pc = "claim"
    /\ \/ /\ pc' = "get_configuration2"
          /\ UNCHANGED << r, di, ret_from, usbdev, nclose, handles >>
       \/ /\ LibusbClose
          /\ \E e \in LibusbErrors : DeviceReturn(e, "claim")
    /\ NoClose
    /\ UNCHANGED << caller, fanout, success, r_stream, kernel, pending, devs,
                    history >>

\* lines 363-374: the second get_configuration, then the call of start_stream
get_configuration2 ==
    /\ pc = "get_configuration2"
    /\ \/ /\ pc' = "handshake"
          /\ UNCHANGED << r, di, ret_from, usbdev, nclose, handles >>
       \/ /\ LibusbClose
          /\ \E e \in LibusbErrors : DeviceReturn(e, "get_configuration2")
    /\ NoClose
    /\ UNCHANGED << caller, fanout, success, r_stream, kernel, pending, devs,
                    history >>

\* a plausible slip: the handle is not closed after start_stream
StreamHandleKeptOpen == UNCHANGED << usbdev, nclose, handles >>

\* line 375: libusb_close(usbdev) after start_stream
StreamHandleClosed == LibusbClose

\* lines 375-376: libusb_close after start_stream, return r
libusb_close ==
    /\ pc = "libusb_close"
    /\ StreamHandleClosed
    /\ DeviceReturn(r, "stream")
    /\ caller' = "sup"
    /\ NoClose
    /\ UNCHANGED << fanout, success, r_stream, kernel, pending, devs, history >>

(***************************************************************************)
(* start_usb2sock: lines 444-468                                           *)
(***************************************************************************)
\* The top of the loop of start_usb2sock (line 444).  r = 0 of line 449 is
\* taken here: accept_any_connection and recv_and_discard, which run before
\* it, do not use r.  devs, usbdev and r_stream are out of scope.
LoopTop ==
    /\ pc' = "accept"
    /\ r' = 0
    /\ devs' = << >>
    /\ di' = 0
    /\ usbdev' = "none"
    /\ nclose' = 0
    /\ ret_from' = "none"
    /\ success' = 0
    /\ r_stream' = 0

\* a plausible slip: every failure is retried
SupCheckRetriesAll ==
    /\ pc = "sup_check"
    /\ pc' = IF r = 0 THEN "exit" ELSE "wait"
    /\ NoClose
    /\ UNCHANGED << caller, fanout, success, r, r_stream, kernel, pending, usb,
                    history >>

\* lines 456-461: libusb_free_device_list, then the tests of r
sup_check ==
    /\ pc = "sup_check"
    /\ pc' = IF r = 0 THEN "exit"
             ELSE IF r # WAIT_FOR_HOTPLUG /\ r # VENDOR_ID_DJI THEN "exit"
             ELSE "wait"
    /\ NoClose
    /\ UNCHANGED << caller, fanout, success, r, r_stream, kernel, pending, usb,
                    history >>

\* the prompt and usleep of lines 462-466, then the next pass of the loop
wait ==
    /\ pc = "wait"
    /\ LoopTop
    /\ NoClose
    /\ UNCHANGED << caller, fanout, kernel, pending, handles, history >>

Next ==
    \/ PeerConnect
    \/ \E fd \in Fds : PeerClose(fd)
    \/ PeerSend
    \/ accept_call
    \/ accept_check
    \/ accept_register
    \/ recv_and_discard
    \/ recv_would_block
    \/ send_to_socket
    \/ handshake
    \/ handshake_check
    \/ bulk_read
    \/ classify
    \/ get_device_list
    \/ scan
    \/ libusb_open
    \/ get_configuration
    \/ get_config_descriptor
    \/ claim_interface
    \/ get_configuration2
    \/ libusb_close
    \/ sup_check
    \/ wait

Spec == Init /\ [][Next]_vars

\* The steps of the program.  It is one thread that nothing suspends: every
\* call it makes returns (the sockets are non-blocking, the bulk transfers and
\* the sleeps are timed), so it always takes its next step.
Program ==
    \/ accept_call
    \/ accept_check
    \/ accept_register
    \/ recv_and_discard
    \/ recv_would_block
    \/ send_to_socket
    \/ handshake
    \/ handshake_check
    \/ bulk_read
    \/ classify
    \/ get_device_list
    \/ scan
    \/ libusb_open
    \/ get_configuration
    \/ get_config_descriptor
    \/ claim_interface
    \/ get_configuration2
    \/ libusb_close
    \/ sup_check
    \/ wait

FairSpec == Spec /\ WF_vars(Program)

(***************************************************************************)
(* The claims.                                                             *)
(***************************************************************************)
\* a step of the program (the peers' steps leave pc alone, and every step of
\* the program that the claims below speak of moves it)
ProgramMoves == pc' # pc

IsPrefixOfBuf(q) == \A k \in 1..Len(q) : q[k] = k - 1

DeviceGone ==
    { LIBUSB_ERROR_IO, LIBUSB_ERROR_NO_DEVICE, LIBUSB_ERROR_NOT_FOUND }

\* what a step that changes the count does to the registry
RegistryStep ==
    /\ clientlist_use' > clientlist_use =>
          Registry' = Append(Registry, clientfd)
    /\ clientlist_use' < clientlist_use =>
          Registry' = RemoveAt(Registry, i + 1)

\* C1: the registry is the accepted, not yet removed sockets in their order of
\* acceptance: every registration appends the accepted socket, and every
\* removal (close_client(i), i the loop index) leaves the entries below i
\* alone, moves every entry above i down by one slot, and loses or
\* duplicates none.
C1_RegistryKeepsOrder == [][RegistryStep]_vars

\* start_stream has returned after a transfer that failed with one of the
\* errors of an unplugged device
DeviceGoneReturned == ret_from = "stream" /\ r_stream \in DeviceGone

RestartState ==
    DeviceGoneReturned =>
        /\ pc # "exit"
        /\ r = WAIT_FOR_HOTPLUG
        /\ pc # "libusb_close" => usbdev = "closed"

\* the steps from the failed transfer back to discovery
WayBackStep ==
    pc \in {"handshake_check", "classify", "libusb_close", "sup_check", "wait"} =>
        /\ Registry' = Registry
        /\ open' = open

\* C2: a "no device", "not found" or I/O error of the handshake send or of a
\* bulk read makes start_stream return the restart signal, the handle is
\* closed, the supervisor does not exit, and no step of that way back to
\* discovery touches the registered peers.
C2_DeviceGoneRestarts == []RestartState /\ [][WayBackStep]_vars

\* C3: in one send_to_socket call every socket gets a prefix of the frame in
\* buf, its bytes in order and none of them twice.  (Frames follow each other
\* in arrival order: each call sends the frame of the bulk read before it.)
C3_AtMostOncePerFrame == \A fd \in Fds : IsPrefixOfBuf(rcvd[fd])

\* C4: a peer that reported "would block" at offset M < L of the frame has got
\* exactly the bytes [0, M) of it, and is still registered.
C4_WouldBlockKeepsPrefix ==
    \A fd \in Fds :
        blocked[fd] # NoBlock =>
            /\ rcvd[fd] = BufBytes(0, blocked[fd])
            /\ fd \in RegisteredFds

\* C5: a registered peer that had closed its socket when recv_and_discard was
\* called is out of the registry when the call returns, and its socket is
\* never in the registry again, so that no send_to_socket writes to it.
C5_ClosedPeerRemoved ==
    /\ (pc = "recv" /\ i >= clientlist_use) => eofAtCall \cap RegisteredFds = {}
    /\ gone \cap RegisteredFds = {}
    /\ (pc = "send" /\ i < clientlist_use) => clientlist[i] \notin gone

\* recv_and_discard is about to return, and two of the peers registered at
\* its call had closed their sockets
C5_Witness ==
    /\ pc = "recv"
    /\ i >= clientlist_use
    /\ Cardinality(eofAtCall) >= 2

\* C6: close() is never called on a descriptor the program has closed already,
\* and a descriptor in the registry is open: it is closed only by its removal.
C6_ClosedAtMostOnce ==
    /\ close_r = 0
    /\ RegisteredFds \subseteq open

\* the scan has reached the end of the list and no device of it was the goggles
FullScanNoMatch ==
    /\ pc = "sup_check"
    /\ ret_from \in {"none", "wrong_device"}
    /\ di = Len(devs)
    /\ \A k \in 1..Len(devs) : devs[k] # "goggles"

NoMatchStep == (FullScanNoMatch /\ ProgramMoves) => pc' = "wait"

\* C7: a scan of the whole device list, of any length, that finds no device
\* of the target identity is followed by the wait, not by the exit.
C7_NoMatchWaits == [][NoMatchStep]_vars

\* the bulk read has returned a timeout and transferred nothing
TimedOutNoData ==
    pc = "classify" /\ r_stream = LIBUSB_ERROR_TIMEOUT /\ success = 0

TimeoutStep ==
    (TimedOutNoData /\ ProgramMoves) =>
        /\ pc' = "accept"
        /\ caller' = "stream"
        /\ usbdev = "open"
        /\ usbdev' = "open"
        /\ nclose' = 0
        /\ clientlist' = clientlist
        /\ clientlist_use' = clientlist_use
        /\ open' = open
        /\ rcvd' = rcvd
        /\ close_r' = 0

\* C8: a bulk read that times out with no byte transferred closes and removes
\* no peer, writes nothing, and start_stream goes to the next iteration of
\* its loop with the same open handle.
C8_TimeoutKeepsStreaming == [][TimeoutStep]_vars

\* the timeout, with peers connected
C8_Witness == TimedOutNoData /\ clientlist_use > 0

\* accept has returned a connection while the registry is full
AcceptedWhenFull ==
    pc = "accept_check" /\ saddrlen_ok /\ clientlist_use >= MaxClients

RejectStep ==
    (AcceptedWhenFull /\ ProgramMoves) =>
        /\ clientlist' = clientlist
        /\ clientlist_use' = clientlist_use
        /\ clientfd \in open
        /\ clientfd \notin open'
        /\ close_r' = 0
        /\ pc' = "recv"

EveryPeerWritten ==
    (pc = "send" /\ i >= clientlist_use /\ success > 0) =>
        \A fd \in RegisteredFds : rcvd[fd] # << >> \/ blocked[fd] # NoBlock

C10_StreamHandleClosedOnce ==
    /\ (ret_from = "stream" /\ pc # "libusb_close") =>
          /\ usbdev = "closed"
          /\ nclose = 1
          /\ handles = 0
    /\ pc \in {"handshake", "handshake_check", "bulk_read", "classify", "send",
               "libusb_close"} =>
          /\ usbdev = "open"
          /\ nclose = 0

\* start_stream has returned a fatal error and control is in the supervisor
C10_Witness ==
    /\ pc = "sup_check"
    /\ ret_from = "stream"
    /\ r = LIBUSB_ERROR_OTHER
    /\ usbdev = "closed"

\* start_with_a_device has returned a code that is neither 0 nor one of the
\* two sentinels the supervisor retries on
FatalReturned ==
    pc = "sup_check" /\ r \notin {0, WAIT_FOR_HOTPLUG, VENDOR_ID_DJI}

FatalStep == (FatalReturned /\ ProgramMoves) => (pc' = "exit" /\ r' = r)

\* what start_usb2sock returns (line 471) is what the failed call returned:
\* the result of the failed bulk transfer, or the libusb error of the set-up
ExitCode ==
    (pc = "exit" /\ r # 0) =>
        /\ r \in LibusbErrors
        /\ (ret_from = "stream" /\ r_stream # 0) => r = r_stream

\* C11: a code outside the recoverable set (not WAIT_FOR_HOTPLUG, not the
\* wrong-device sentinel) returned by the set-up or by the streaming loop ends
\* the discovery loop, and start_usb2sock returns that same non-zero code.
C11_FatalCodeIsReturned == [][FatalStep]_vars /\ []ExitCode

\* the process has exited with the error a bulk read of the streaming loop gave
C11_Witness ==
    /\ pc = "exit"
    /\ ret_from = "stream"
    /\ caller = "sup"
    /\ r = LIBUSB_ERROR_OTHER
    /\ r_stream = LIBUSB_ERROR_OTHER

\* C12: a discovery pass reads the devices in list order, leaves every device
\* of another identity behind as "wrong device", opens the first device of
\* the target identity, and reads no device after it in that pass.  (The
\* devices the scan loop has read in this pass are devs[1 .. Len(devs)];
\* those it has left behind with "continue" are devs[1 .. di].)
C12_FirstMatchIsOpened ==
    /\ Len(devs) \in {di, di + 1}
    /\ \A k \in 1..di : k <= Len(devs) /\ devs[k] # "goggles"
    /\ (pc = "libusb_open" \/ usbdev # "none") =>
          /\ Len(devs) = di + 1
          /\ devs[di + 1] = "goggles"

\* the second device of the list is the goggles and is about to be opened
C12_Witness ==
    /\ pc = "libusb_open"
    /\ di = 1
    /\ devs = << "other", "goggles" >>

\* the handshake send has returned a timeout and sent nothing
HandshakeTimedOut ==
    pc = "handshake_check" /\ r_stream = LIBUSB_ERROR_TIMEOUT /\ success = 0

HandshakeTimeoutStep ==
    (HandshakeTimedOut /\ ProgramMoves) =>
        /\ pc' = "accept"
        /\ caller' = "stream"
        /\ usbdev' = "open"
        /\ ret_from' = ret_from

\* between the top of the loop of start_stream and its bulk read: one call of
\* accept_any_connection, then one of recv_and_discard, and no return
ToBulkReadStep ==
    (caller = "stream" /\ pc \in {"accept", "accept_check", "accept_fcntl", "recv"}) =>
        /\ caller' = "stream"
        /\ ret_from' = ret_from
        /\ usbdev' = "open"
        /\ pc = "accept" => pc' \in {"accept", "accept_check", "recv"}
        /\ pc = "accept_check" => pc' \in {"accept_check", "accept_fcntl", "recv"}
        /\ pc = "accept_fcntl" => pc' \in {"accept_fcntl", "recv"}
        /\ pc = "recv" => pc' \in {"recv", "bulk_read"}

\* C13: after a handshake send that timed out with no byte sent start_stream
\* does not return: it goes to the top of its loop, and from there through
\* one accept_any_connection and one recv_and_discard to the bulk read.
C13_HandshakeTimeoutStreams ==
    [][HandshakeTimeoutStep]_vars /\ [][ToBulkReadStep]_vars

\* the timed-out handshake, with a connection waiting to be accepted
C13_Witness == HandshakeTimedOut /\ pending > 0

\* C14: the peers cannot stall the hardware path: from the top of the loop of
\* start_stream the program always reaches the bulk read of that iteration,
\* and a send_to_socket call always ends.
C14_PeersCannotStall ==
    /\ (caller = "stream" /\ pc = "accept") ~> (pc = "bulk_read")
    /\ (pc = "send") ~> (pc # "send")

\* accept_any_connection returns at the step that takes pc to "recv"
AllTakenStep == (pc = "accept" /\ ProgramMoves) => pending' = 0

\* C15: one call of accept_any_connection takes every connection that was
\* pending at the call: after its accept calls none of them is left pending.
C15_AcceptTakesAllPending == [][AllTakenStep]_vars

OneAcceptStep ==
    /\ (pc = "accept" /\ ProgramMoves) =>
          /\ pending' \in {pending, pending - 1}
          /\ (pending > 0 /\ FreeFds # {}) =>
                (pending' = pending - 1 /\ pc' = "accept_check")
          /\ pending' = pending => pc' = "recv"
    /\ pc \in {"accept_check", "accept_fcntl"} =>
          /\ pending' >= pending
          /\ pc' # "accept"

\* C15, as the code has it: one call of accept_any_connection calls accept
\* once.  It takes the first pending connection when there is one (and a
\* descriptor for it) and returns after handling that connection; every other
\* pending connection stays in the queue for a later call.
C15_AcceptTakesOne == [][OneAcceptStep]_vars

\* accept has taken a connection and another one is waiting
C15_Witness == pc = "accept_check" /\ pending >= 1 /\ clientfd # NoFd

\* C16: recv_and_discard leaves no peer out: a descriptor that was registered
\* when the call began and that the call has neither removed nor seen report
\* "would block" is still in the registry, at or above the loop index; when
\* the call returns there is none.
C16_EveryPeerExamined ==
    pc = "recv" =>
        unexamined \subseteq { clientlist[j] : j \in i..(clientlist_use - 1) }

\* C17: while the process runs, a connection that waits in the listen queue
\* is eventually taken by an accept call of the main loop.
C17_PendingIsAccepted ==
    (pending > 0) ~> (pc = "accept_check" \/ pc = "exit")

\* accept_any_connection returns after accept has given it the socket clientfd
AcceptedReturnStep ==
    (pc \in {"accept_check", "accept_fcntl"} /\ pc' = "recv") =>
        LET registered == \E j \in 0..(clientlist_use' - 1) : clientlist'[j] = clientfd
        IN  \/ registered /\ clientfd \in open'
            \/ ~registered /\ clientfd \notin open'

\* C18: when accept_any_connection returns, the socket accept gave it is
\* either registered and open (a socket is registered only after its fcntl
\* O_NONBLOCK), or not registered and closed.
C18_RegisteredOrClosed == [][AcceptedReturnStep]_vars

SendOffsetStep ==
    /\ (pc # "send" /\ pc' = "send") => (i' = 0 /\ ofs' = 0)
    /\ (pc = "send" /\ pc' = "send") =>
          /\ success' = success
          /\ (i' # i \/ clientlist_use' # clientlist_use) => ofs' = 0
          /\ (i' = i /\ clientlist_use' = clientlist_use) => ofs' >= ofs

\* C19: in a send_to_socket call the frame length stays what it was given,
\* and the offset is 0 whenever the loop comes to another peer: at the start,
\* after the index has moved on (full write, "would block", write of no
\* bytes) and after a removal has brought the next peer to the index.  The
\* offset grows only over the writes to one and the same peer.
C19_OffsetStartsAtZero == [][SendOffsetStep]_vars

\* the loop has come to the next peer after the peer before it took a part of
\* the frame and then reported "would block"
C19_Witness ==
    /\ pc = "send"
    /\ i >= 1
    /\ i < clientlist_use
    /\ ofs = 0
    /\ clientlist[i] # clientlist[i - 1]
    /\ blocked[clientlist[i - 1]] > 0

\* control is inside start_with_a_device after libusb_open, or inside
\* start_stream and the fan-out calls of its loop
HandleInUse ==
    \/ caller = "stream"
    \/ pc \in {"get_configuration", "get_config_descriptor", "claim",
               "get_configuration2", "handshake", "handshake_check",
               "libusb_close"}

\* C20: when start_with_a_device has returned, the handle it opened is
\* closed: outside of it no device handle is open, so that there is never
\* more than one, and none while the supervisor waits.
C20_HandleClosedOnReturn ==
    /\ handles <= 1
    /\ ~HandleInUse => (handles = 0 /\ usbdev # "open")

====
